---- MODULE Spec2Model ----
(***************************************************************************)
(* Model of compose/service.py: one Service object driving the containers *)
(* of its (project, service) label set on a Docker daemon.  The daemon's  *)
(* containers and image, the Service's option map and the position of the *)
(* operation in progress (scale or converge) are the state; every runtime *)
(* call the operation issues is one step and is recorded in a call log.   *)
(***************************************************************************)
EXTENDS Naturals, Sequences, FiniteSets, TLC

\* ---------------------------------------------------------------- bounds
MaxInit == 1        \* containers present on the daemon initially
MaxNum == 2         \* largest container number present initially
MaxScale == 2       \* largest desired_num passed to scale
MaxOps == 3         \* operations run one after the other
MaxFail == 1        \* runtime calls the daemon answers with an error
MaxVols == 2        \* entries of the 'volumes' option
MaxPorts == 2       \* entries of the 'ports' option
NumServices == 2    \* services that name each other in 'volumes_from'
MaxSources == 2     \* entries of one 'volumes_from' list
RecursionLimit == 4 \* nested create_container calls the interpreter allows

\* ------------------------------------------------------- label vocabulary
\* Label values are naturals; 0 stands for "key absent from the dict".
LABEL_PROJECT == "project"
LABEL_SERVICE == "service"
LABEL_ONE_OFF == "oneoff"
LABEL_CONTAINER_NUMBER == "number"
LABEL_VERSION == "version"
LABEL_CONFIG_HASH == "config_hash"
UserKey == "user"

LabelKeys == {LABEL_PROJECT, LABEL_SERVICE, LABEL_ONE_OFF, LABEL_CONTAINER_NUMBER,
              LABEL_VERSION, LABEL_CONFIG_HASH, UserKey}

EmptyDict == [k \in LabelKeys |-> 0]

\* self.project, self.name, "False"/"True", __version__ as label values
ProjectVal == 1
ServiceVal == 1
OneOffVal(one_off) == IF one_off THEN 2 ELSE 1
VersionVal == 1
UserVal == 7

\* the image id the daemon reports once the image is built or pulled, and
\* the id an earlier image of the service had
ImageId == 1
OldImageId == 2

\* dict.update(other): keys of other win
DictUpdate(d, other) == [k \in LabelKeys |-> IF other[k] # 0 THEN other[k] ELSE d[k]]

DictSet(d, key, val) == [d EXCEPT ![key] = val]

IsEmptyDict(d) == \A k \in LabelKeys : d[k] = 0

\* ------------------------------------------------------------ sequences
Range(s) == {s[i] : i \in 1..Len(s)}

\* every order in which the daemon may list the set S
ListOrders(S) ==
  {s \in [1..Cardinality(S) -> S] : \A i, j \in 1..Cardinality(S) : s[i] = s[j] => i = j}

RECURSIVE InsertByNumber(_, _)
\* insert c after every element whose number is <= c's (stable)
InsertByNumber(sorted, c) ==
  IF sorted = <<>> THEN <<c>>
  ELSE IF Head(sorted).labels[LABEL_CONTAINER_NUMBER] <= c.labels[LABEL_CONTAINER_NUMBER]
       THEN <<Head(sorted)>> \o InsertByNumber(Tail(sorted), c)
       ELSE <<c>> \o sorted

\* mutant: the lists are left in the order of the daemon's listing
SortByNumber_unsorted(s) == s

RECURSIVE SortByNumber(_)
\* list.sort(key=lambda c: c.number): stable, ascending
SortByNumber(s) ==
  IF s = <<>> THEN <<>>
  ELSE InsertByNumber(SortByNumber(SubSeq(s, 1, Len(s) - 1)), s[Len(s)])

IsRunning(c) == c.running

IsStopped(c) == ~c.running

VARIABLES
  options,    \* self.options: [hasLabels, labels, hostPort, build]
  image,      \* id of the image named image_name on the daemon, 0 if absent
  cs,         \* the daemon's containers: id -> [name, labels, running]
  hashTab,    \* json_hash as an injective table: hashTab[h] is the dict hashed to h
  pc,         \* position of the operation in progress
  loc,        \* the operation's parameters and local variables
  log,        \* the runtime calls the operation issued so far, in order
  opsDone,    \* operations begun so far
  fails       \* runtime calls that failed so far

vars == <<options, image, cs, hashTab, pc, loc, log, opsDone, fails>>

\* ------------------------------------------------------------- Service
\* Service.labels(one_off): the three "key=value" selectors, as a dict
labels(one_off) ==
  [k \in LabelKeys |->
     IF k = LABEL_PROJECT THEN ProjectVal
     ELSE IF k = LABEL_SERVICE THEN ServiceVal
     ELSE IF k = LABEL_ONE_OFF THEN OneOffVal(one_off)
     ELSE 0]

\* the daemon's label filter: every selector is a label of the container
Matches(c, one_off) == \A k \in LabelKeys : labels(one_off)[k] # 0 => c.labels[k] = labels(one_off)[k]

\* Container.from_ps: the snapshot a Container object holds
Container(id) == [id |-> id, name |-> cs[id].name, labels |-> cs[id].labels,
                  running |-> cs[id].running]

\* Service.containers(stopped, one_off): the lists the daemon may return
containers(stopped, one_off) ==
  LET ids == {i \in DOMAIN cs : Matches(cs[i], one_off) /\ (stopped \/ cs[i].running)}
  IN {[i \in 1..Cardinality(ids) |-> Container(o[i])] : o \in ListOrders(ids)}

\* mutant: every name gets the 'run' bit of one-off containers
build_container_name_run(number, one_off) == [pre |-> <<>>, num |-> number, one_off |-> TRUE]

\* build_container_name: project and service are fixed, pre holds the short
\* ids a rename prepended
build_container_name(number, one_off) == [pre |-> <<>>, num |-> number, one_off |-> one_off]

Max(S) == CHOOSE m \in S : \A x \in S : x <= m

\* mutant: one-off and regular containers are numbered together
next_container_number_shared(one_off) ==
  LET numbers == {cs[i].labels[LABEL_CONTAINER_NUMBER] :
                    i \in {j \in DOMAIN cs : Matches(cs[j], TRUE) \/ Matches(cs[j], FALSE)}}
  IN IF numbers = {} THEN 1 ELSE Max(numbers) + 1

\* mutant: the highest number in use is handed out again
next_container_number_reuse(one_off) ==
  LET numbers == {cs[i].labels[LABEL_CONTAINER_NUMBER] : i \in {j \in DOMAIN cs : Matches(cs[j], one_off)}}
  IN IF numbers = {} THEN 1 ELSE Max(numbers)

next_container_number(one_off) ==
  LET numbers == {cs[i].labels[LABEL_CONTAINER_NUMBER] : i \in {j \in DOMAIN cs : Matches(cs[j], one_off)}}
  IN IF numbers = {} THEN 1 ELSE Max(numbers) + 1

\* mutant: the ports are not looked at
can_be_scaled_always == TRUE

can_be_scaled == ~options.hostPort

can_be_built == options.build

\* config_dict: the options map and the image id
config_dict(opts, img) ==
  [hasLabels |-> opts.hasLabels, labels |-> opts.labels, hostPort |-> opts.hostPort,
   build |-> opts.build, image_id |-> img]

\* json_hash: the index of the dict in the table, a new index for a new dict
json_hash(tab, d) ==
  IF \E h \in 1..Len(tab) : tab[h] = d
  THEN CHOOSE h \in 1..Len(tab) : tab[h] = d
  ELSE Len(tab) + 1

Remember(tab, d) == IF \E h \in 1..Len(tab) : tab[h] = d THEN tab ELSE Append(tab, d)

config_hash == json_hash(hashTab, config_dict(options, image))

\* mutant: the labels given win over the engine's
build_container_labels_user_wins(label_options, service_labels, number) ==
  DictUpdate(DictSet(DictSet(service_labels, LABEL_CONTAINER_NUMBER, number),
                     LABEL_VERSION, VersionVal),
             label_options)

\* build_container_labels(label_options, service_labels, number)
build_container_labels(label_options, service_labels, number) ==
  DictSet(DictSet(DictUpdate(label_options, service_labels), LABEL_CONTAINER_NUMBER, number),
          LABEL_VERSION, VersionVal)

\* ------------------------------------------------------- runtime calls
\* err is the daemon's answer: "none", "no such process" (status 500 with
\* that explanation) or "error" (any other APIError)
CallErr(call, id, arg, err) ==
  [call |-> call, id |-> id, arg |-> arg, ok |-> err = "none", err |-> err]

Call(call, id, arg, ok) == CallErr(call, id, arg, IF ok THEN "none" ELSE "error")

NoContainer == [id |-> 0, name |-> build_container_name(0, FALSE), labels |-> EmptyDict,
                running |-> FALSE]

\* The id the daemon gives a new container: one that no container on the
\* daemon has and no call of the operation in progress named.
FreshId ==
  LET used == DOMAIN cs \cup {log[k].id : k \in 1..Len(log)} \cup {log[k].arg : k \in 1..Len(log)}
  IN CHOOSE i \in 1..(Cardinality(used) + 1) : i \notin used

\* **override_options of create_container: given says the dict is not
\* empty, hasLabels that it has a 'labels' key
NoOverride == [given |-> FALSE, hasLabels |-> FALSE, labels |-> EmptyDict]

\* mutant: a buildable service is built whatever do_build says
ensure_image_exists_builds_anyway(o, do_build) ==
  IF o = "inspect_fails"
  THEN [ok |-> FALSE, image |-> image, calls |-> <<Call("inspect_image", 0, 0, FALSE)>>]
  ELSE IF image # 0
  THEN [ok |-> TRUE, image |-> image, calls |-> <<>>]
  ELSE IF can_be_built
  THEN [ok |-> o # "image_fails", image |-> IF o # "image_fails" THEN ImageId ELSE image,
        calls |-> <<Call("build", 0, 0, o # "image_fails")>>]
  ELSE [ok |-> o # "image_fails", image |-> IF o # "image_fails" THEN ImageId ELSE image,
        calls |-> <<Call("pull", 0, 0, o # "image_fails")>>]

\* ensure_image_exists(do_build): self.image() raises on an inspection error
\* other than the 404 'No such image' (o = "inspect_fails"); with the image
\* absent a buildable service is built if do_build and raises NeedsBuildError
\* otherwise, any other service is pulled
ensure_image_exists(o, do_build) ==
  IF o = "inspect_fails"
  THEN [ok |-> FALSE, image |-> image, calls |-> <<Call("inspect_image", 0, 0, FALSE)>>]
  ELSE IF image # 0
  THEN [ok |-> TRUE, image |-> image, calls |-> <<>>]
  ELSE IF can_be_built
  THEN IF do_build
       THEN [ok |-> o # "image_fails", image |-> IF o # "image_fails" THEN ImageId ELSE image,
             calls |-> <<Call("build", 0, 0, o # "image_fails")>>]
       ELSE [ok |-> FALSE, image |-> image, calls |-> <<>>]
  ELSE [ok |-> o # "image_fails", image |-> IF o # "image_fails" THEN ImageId ELSE image,
        calls |-> <<Call("pull", 0, 0, o # "image_fails")>>]

\* ensure_image_exists followed by _get_container_create_options and
\* Container.create.  number = 0 stands for None, previous = 0 for no previous
\* container; o is what the daemon answers: "ok", "inspect_fails",
\* "image_fails" (build or pull fails), "create_fails".
create_container_override(o, one_off, do_build, previous, number, ov) ==
  LET img == ensure_image_exists(o, do_build)
      image1 == img.image
      num == IF number # 0 THEN number ELSE next_container_number(one_off)
      add_config_hash == ~one_off /\ ~ov.given
      dict == config_dict(options, image1)
      hash == json_hash(hashTab, dict)
      \* container_options['labels'] after update(override_options): the dict
      \* object of the override, else the dict object of self.options, else
      \* no key
      src == IF ov.hasLabels THEN "override" ELSE IF options.hasLabels THEN "self" ELSE "none"
      base == IF src = "override" THEN ov.labels
              ELSE IF src = "self" THEN options.labels ELSE EmptyDict
      stamped == IF add_config_hash THEN DictSet(base, LABEL_CONFIG_HASH, hash) ELSE base
      \* build_container_labels: labels = label_options or {}
      built == build_container_labels(stamped, labels(one_off), num)
      options1 == IF src = "self" /\ ~IsEmptyDict(stamped)
                  THEN [options EXCEPT !.labels = built]
                  ELSE options
      name == build_container_name(num, one_off)
      conflict == \E i \in DOMAIN cs : cs[i].name = name
      createFails == conflict \/ o = "create_fails"
      id == FreshId
      new == [name |-> name, labels |-> built, running |-> FALSE]
  IN IF ~img.ok
     THEN [ok |-> FALSE, image |-> image1, options |-> options, hashTab |-> hashTab,
           cs |-> cs, calls |-> img.calls, container |-> NoContainer]
     ELSE IF createFails
     THEN [ok |-> FALSE, image |-> image1, options |-> options1,
           hashTab |-> IF add_config_hash THEN Remember(hashTab, dict) ELSE hashTab,
           cs |-> cs,
           calls |-> Append(img.calls, Call("create", 0, previous, FALSE)),
           container |-> NoContainer]
     ELSE [ok |-> TRUE, image |-> image1, options |-> options1,
           hashTab |-> IF add_config_hash THEN Remember(hashTab, dict) ELSE hashTab,
           cs |-> [i \in DOMAIN cs \cup {id} |-> IF i = id THEN new ELSE cs[i]],
           calls |-> Append(img.calls, Call("create", id, previous, TRUE)),
           container |-> [id |-> id, name |-> name, labels |-> built, running |-> FALSE]]

\* create_container without override options, as scale and converge call it
create_container(o, one_off, do_build, previous, number) ==
  create_container_override(o, one_off, do_build, previous, number, NoOverride)

\* the answers the daemon may give: an error is possible while fewer than
\* MaxFail calls have failed
Oks == IF fails < MaxFail THEN BOOLEAN ELSE {TRUE}

CreateOutcomes ==
  {"ok"} \cup (IF fails < MaxFail
               THEN {"create_fails", "inspect_fails"} \cup (IF image = 0 THEN {"image_fails"} ELSE {})
               ELSE {})

\* the answers to container.stop() in recreate_container: "no_such_process"
\* is the status 500 the code passes over
StopOutcomes == {"ok"} \cup (IF fails < MaxFail THEN {"no_such_process", "fail"} ELSE {})

\* the APIError of each answer to container.stop()
StopErr(o) ==
  IF o = "ok" THEN "none" ELSE IF o = "no_such_process" THEN "no such process" ELSE "error"

\* mutant: every APIError of container.stop() is passed over
StopRecovered_any(err) == TRUE

\* except APIError: status 500 and 'no such process' in the explanation: pass
StopRecovered(err) == err = "no such process"

Failed(ok) == IF ok THEN fails ELSE fails + 1

\* what the daemon does to its containers on each call
DaemonStart(id) == [cs EXCEPT ![id].running = TRUE]

DaemonStop(id) == [cs EXCEPT ![id].running = FALSE]

DaemonRemove(id) == [i \in DOMAIN cs \ {id} |-> cs[i]]

\* client.rename(id, '%s_%s' % (short_id, name))
DaemonRename(id) == [cs EXCEPT ![id].name.pre = <<id>> \o @]

\* ------------------------------------------------------------ volumes
\* A volume of the 'volumes' option is the list of the parts of its string
\* between ':' : <<internal>>, <<external, internal>> or
\* <<external, internal, mode>>.
IntPaths == {"/a", "/b"}

HostPaths == {"/h", "/g"}

VolumeStrings ==
  {<<i>> : i \in IntPaths}
    \cup {<<h, i>> : h \in HostPaths, i \in IntPaths}
    \cup {<<h, i, "ro">> : h \in HostPaths, i \in IntPaths}

\* parse_volume_spec: external is "" for None
parse_volume_spec(parts) ==
  IF Len(parts) = 1 THEN [external |-> "", internal |-> parts[1], mode |-> "rw"]
  ELSE IF Len(parts) = 2 THEN [external |-> parts[1], internal |-> parts[2], mode |-> "rw"]
  ELSE [external |-> parts[1], internal |-> parts[2], mode |-> parts[3]]

\* build_volume_binding: the pair (external, {'bind': internal, 'ro': ...})
build_volume_binding(volume_spec) ==
  <<volume_spec.external, [bind |-> volume_spec.internal, ro |-> volume_spec.mode = "ro"]>>

\* a bindings dict maps an external path to its binding; NoBinding stands for
\* a key that is absent
NoBinding == [bind |-> "", ro |-> FALSE]

NoBinds == [h \in HostPaths |-> NoBinding]

RECURSIVE DictOfPairs(_)
\* dict(pairs): a later pair replaces an earlier one with the same key
DictOfPairs(pairs) ==
  IF pairs = <<>> THEN NoBinds
  ELSE LET last == pairs[Len(pairs)] IN
       [DictOfPairs(SubSeq(pairs, 1, Len(pairs) - 1)) EXCEPT ![last[1]] = last[2]]

\* dict.update for bindings
BindsUpdate(d, other) == [h \in HostPaths |-> IF other[h] # NoBinding THEN other[h] ELSE d[h]]

\* the previous container: its 'Volumes' map (internal path to path on the
\* host, "" for no entry) and the volumes of its image; has is FALSE for None
NoPrevious == [has |-> FALSE, Volumes |-> [i \in IntPaths |-> ""], image_volumes |-> {}]

RECURSIVE DataVolumePairs(_, _)
\* the loop of get_container_data_volumes over the volumes in the order given
DataVolumePairs(container, order) ==
  IF order = <<>> THEN <<>>
  ELSE LET volume == parse_volume_spec(Head(order))
           rest == DataVolumePairs(container, Tail(order))
           volume_path == container.Volumes[volume.internal]
       IN IF volume.external # "" THEN rest
          ELSE IF volume_path = "" THEN rest
          ELSE <<build_volume_binding([volume EXCEPT !.external = volume_path])>> \o rest

\* the orders in which set(volumes_option + image_volumes.keys()) may be
\* iterated
VolumeOrders(container, volumes_option) ==
  ListOrders(Range(volumes_option) \cup {<<i>> : i \in container.image_volumes})

\* get_container_data_volumes(container, volumes_option), iterating in order
get_container_data_volumes(container, order) == DictOfPairs(DataVolumePairs(container, order))

\* the bindings of the declared volumes that have a ':'
DeclaredPairs(volumes_option) ==
  LET withColon == SelectSeq(volumes_option, LAMBDA v : Len(v) > 1)
  IN [k \in 1..Len(withColon) |-> build_volume_binding(parse_volume_spec(withColon[k]))]

\* merge_volume_bindings(volumes_option, previous_container)
merge_volume_bindings(volumes_option, previous_container, order) ==
  IF previous_container.has
  THEN BindsUpdate(DictOfPairs(DeclaredPairs(volumes_option)),
                   get_container_data_volumes(previous_container, order))
  ELSE DictOfPairs(DeclaredPairs(volumes_option))

\* -------------------------------------------------------------- ports
\* An entry of 'ports' or 'expose' is an integer or a string, a string being
\* the list of its characters.
IntPort(n) == [int |-> TRUE, n |-> n, s |-> <<>>]

StrPort(s) == [int |-> FALSE, n |-> 0, s |-> s]

RECURSIVE Digits(_)
\* the decimal digits of n
Digits(n) ==
  LET d == <<"0", "1", "2", "3", "4", "5", "6", "7", "8", "9">>[(n % 10) + 1]
  IN IF n < 10 THEN <<d>> ELSE Append(Digits(n \div 10), d)

\* str(port)
Str(port) == IF port.int THEN Digits(port.n) ELSE port.s

\* ch in s
Contains(s, ch) == \E i \in 1..Len(s) : s[i] = ch

\* 80, "80", "80/tcp", "8080:80", "127.0.0.1:80:80"
PortEntries ==
  {IntPort(80),
   StrPort(<<"8", "0">>),
   StrPort(<<"8", "0", "/", "t", "c", "p">>),
   StrPort(<<"8", "0", "8", "0", ":", "8", "0">>),
   StrPort(<<"1", "2", "7", ".", "0", ".", "0", ".", "1", ":", "8", "0", ":", "8", "0">>)}

\* 80, "8080:80" (not a legal expose entry, but nothing rejects it here)
ExposeEntries == {IntPort(80), StrPort(<<"8", "0", "8", "0", ":", "8", "0">>)}

\* the 'ports' and 'expose' keys of self.options; hasPorts says 'ports' is
\* a key
NoPortOptions == [hasPorts |-> FALSE, ports |-> <<>>, expose |-> <<>>]

RECURSIVE PortsLoop(_)
\* for port in ...: if ':' in str(port): return False; return True
PortsLoop(ports) ==
  IF ports = <<>> THEN TRUE
  ELSE IF Contains(Str(Head(ports)), ":") THEN FALSE
  ELSE PortsLoop(Tail(ports))

\* mutant: the exposed ports are gone through as well
can_be_scaled_ports_and_expose(o) ==
  PortsLoop((IF o.hasPorts THEN o.ports ELSE <<>>) \o o.expose)

\* can_be_scaled on the option map o: self.options.get('ports', [])
can_be_scaled_ports(o) == PortsLoop(IF o.hasPorts THEN o.ports ELSE <<>>)

\* ------------------------------------------------------------- Init
HashChoices == {0, 1, 2}

\* the option maps tried: no labels, an empty labels dict or one user label;
\* a host port binding; a build path
InitOptions ==
  {[hasLabels |-> hl, labels |-> l, hostPort |-> hp, build |-> b] :
     hl \in BOOLEAN, l \in {EmptyDict, DictSet(EmptyDict, UserKey, UserVal)},
     hp \in BOOLEAN, b \in BOOLEAN}

NoLoc == [op |-> "none", n |-> 0, found |-> 0, allow |-> FALSE, smart |-> FALSE, do_build |-> FALSE,
          action |-> "none", containers |-> <<>>, running |-> <<>>, stopped |-> <<>>,
          i |-> 0, new |-> NoContainer, ret |-> <<>>,
          one_off |-> FALSE, override |-> NoOverride,
          volumes_option |-> <<>>, previous_container |-> NoPrevious, binds |-> NoBinds,
          port_options |-> NoPortOptions, scalable |-> TRUE,
          volumes_from |-> <<>>, stack |-> <<>>, exc |-> "none"]

\* a container an earlier run of the engine left on the daemon
InitContainer(opts, number, running, h) ==
  [name |-> build_container_name(number, FALSE),
   labels |-> DictSet(build_container_labels(IF h = 1 /\ opts.hasLabels THEN opts.labels ELSE EmptyDict,
                                             labels(FALSE), number),
                      LABEL_CONFIG_HASH, h),
   running |-> running]

\* The build path is read only while the image is absent, the host port
\* only by scale: they are varied where they are read.
Init ==
  /\ options \in {o \in InitOptions : /\ ~o.hasLabels => o.labels = EmptyDict
                                     /\ o.hostPort => ~o.hasLabels}
  /\ image \in {0, ImageId}
  /\ image # 0 => ~options.build
  /\ hashTab = <<config_dict(options, ImageId), config_dict(options, OldImageId)>>
  /\ \E S \in SUBSET (1..MaxNum) :
       /\ Cardinality(S) <= MaxInit
       /\ image = 0 => S = {}
       /\ \E ord \in ListOrders(S), run \in [S -> BOOLEAN], hs \in [S -> HashChoices] :
            /\ \A i, j \in 1..Cardinality(S) : i < j => ord[i] < ord[j]
            /\ cs = [i \in 1..Cardinality(S) |-> InitContainer(options, ord[i], run[ord[i]], hs[ord[i]])]
  /\ pc = "idle"
  /\ loc = NoLoc
  /\ log = <<>>
  /\ opsDone = 0
  /\ fails = 0

\* ------------------------------------------------------------- scale
Idle == pc \in {"idle", "done", "error"}

\* mutant: the create loop runs once more
ScaleNeedsCreate_one_more(l, n) == Len(l) <= n

\* while len(containers) < desired_num
ScaleNeedsCreate(l, n) == Len(l) < n

\* mutant: the stop loop ends one container early
ScaleNeedsStop_off_by_one(running, n) == Len(running) > n + 1

\* while len(running_containers) > desired_num
ScaleNeedsStop(running, n) == Len(running) > n

\* while len(running_containers) < desired_num
ScaleNeedsStart(running, n) == Len(running) < n

\* mutant: the lowest-numbered running container is stopped first
PopLast_first(running) == [item |-> Head(running), rest |-> Tail(running)]

\* running_containers.pop(): the item returned and the list left
PopLast(running) ==
  [item |-> running[Len(running)], rest |-> SubSeq(running, 1, Len(running) - 1)]

\* stopped_containers.pop(0): the item returned and the list left
PopFirst(stopped) == [item |-> Head(stopped), rest |-> Tail(stopped)]

\* scale: the can_be_scaled check and the first listing (lines 155-159)
ScaleBegin ==
  /\ Idle
  /\ opsDone < MaxOps
  /\ \E n \in 0..MaxScale :
       IF ~can_be_scaled
       THEN /\ pc' = "error"
            /\ loc' = [NoLoc EXCEPT !.op = "scale", !.n = n]
       ELSE /\ pc' = "scale_create"
            /\ \E l \in containers(TRUE, FALSE) :
                 loc' = [NoLoc EXCEPT !.op = "scale", !.n = n, !.containers = l,
                                      !.found = Len(l)]
  /\ log' = <<>>
  /\ opsDone' = opsDone + 1
  /\ UNCHANGED <<options, image, cs, hashTab, fails>>

\* while len(containers) < desired_num: containers.append(self.create_container())
ScaleCreate ==
  /\ pc = "scale_create"
  /\ ScaleNeedsCreate(loc.containers, loc.n)
  /\ \E o \in CreateOutcomes :
       LET r == create_container(o, FALSE, TRUE, 0, 0) IN
         /\ options' = r.options
         /\ image' = r.image
         /\ cs' = r.cs
         /\ hashTab' = r.hashTab
         /\ log' = log \o r.calls
         /\ fails' = Failed(o = "ok")
         /\ IF r.ok
            THEN /\ loc' = [loc EXCEPT !.containers = Append(@, r.container)]
                 /\ pc' = pc
            ELSE /\ loc' = loc
                 /\ pc' = "error"
  /\ UNCHANGED opsDone

\* the partition into running and stopped, each sorted by number (lines
\* 163-171); the unsorted list is not read again
ScalePartition ==
  /\ pc = "scale_create"
  /\ ~ScaleNeedsCreate(loc.containers, loc.n)
  /\ loc' = [loc EXCEPT !.running = SortByNumber(SelectSeq(loc.containers, IsRunning)),
                        !.stopped = SortByNumber(SelectSeq(loc.containers, IsStopped)),
                        !.containers = <<>>]
  /\ pc' = "scale_stop"
  /\ UNCHANGED <<options, image, cs, hashTab, log, opsDone, fails>>

\* while len(running_containers) > desired_num: pop the last, stop(timeout=1)
ScaleStop ==
  /\ pc = "scale_stop"
  /\ ScaleNeedsStop(loc.running, loc.n)
  /\ LET c == PopLast(loc.running).item
         rest == PopLast(loc.running).rest IN
     \E ok \in Oks :
       /\ log' = Append(log, Call("stop", c.id, 1, ok))
       /\ fails' = Failed(ok)
       /\ IF ok
          THEN /\ cs' = DaemonStop(c.id)
               /\ loc' = [loc EXCEPT !.running = rest, !.stopped = Append(@, c)]
               /\ pc' = pc
          ELSE /\ cs' = cs
               /\ loc' = [loc EXCEPT !.running = rest]
               /\ pc' = "error"
  /\ UNCHANGED <<options, image, hashTab, opsDone>>

ScaleStopDone ==
  /\ pc = "scale_stop"
  /\ ~ScaleNeedsStop(loc.running, loc.n)
  /\ pc' = "scale_start"
  /\ UNCHANGED <<options, image, cs, hashTab, loc, log, opsDone, fails>>

\* while len(running_containers) < desired_num: pop the first stopped, start it
ScaleStart ==
  /\ pc = "scale_start"
  /\ ScaleNeedsStart(loc.running, loc.n)
  /\ LET c == PopFirst(loc.stopped).item
         rest == PopFirst(loc.stopped).rest IN
     \E ok \in Oks :
       /\ log' = Append(log, Call("start", c.id, 0, ok))
       /\ fails' = Failed(ok)
       /\ IF ok
          THEN /\ cs' = DaemonStart(c.id)
               /\ loc' = [loc EXCEPT !.stopped = rest, !.running = Append(@, c)]
               /\ pc' = pc
          ELSE /\ cs' = cs
               /\ loc' = [loc EXCEPT !.stopped = rest]
               /\ pc' = "error"
  /\ UNCHANGED <<options, image, hashTab, opsDone>>

\* self.remove_stopped(): its listing (line 190)
ScaleStartDone ==
  /\ pc = "scale_start"
  /\ ~ScaleNeedsStart(loc.running, loc.n)
  /\ \E l \in containers(TRUE, FALSE) : loc' = [loc EXCEPT !.containers = l, !.i = 1]
  /\ pc' = "scale_remove"
  /\ UNCHANGED <<options, image, cs, hashTab, log, opsDone, fails>>

\* mutant: an error of c.remove() is swallowed and the loop goes on
ScaleRemove_swallow ==
  /\ pc = "scale_remove"
  /\ loc.i <= Len(loc.containers)
  /\ LET c == loc.containers[loc.i] IN
     IF c.running
     THEN /\ loc' = [loc EXCEPT !.i = @ + 1]
          /\ UNCHANGED <<cs, log, pc, fails>>
     ELSE \E ok \in Oks :
            /\ log' = Append(log, Call("remove", c.id, 0, ok))
            /\ fails' = Failed(ok)
            /\ cs' = IF ok THEN DaemonRemove(c.id) ELSE cs
            /\ loc' = [loc EXCEPT !.i = @ + 1]
            /\ pc' = pc
  /\ UNCHANGED <<options, image, hashTab, opsDone>>

\* remove_stopped: if not c.is_running: c.remove()
ScaleRemove ==
  /\ pc = "scale_remove"
  /\ loc.i <= Len(loc.containers)
  /\ LET c == loc.containers[loc.i] IN
     IF c.running
     THEN /\ loc' = [loc EXCEPT !.i = @ + 1]
          /\ UNCHANGED <<cs, log, pc, fails>>
     ELSE \E ok \in Oks :
            /\ log' = Append(log, Call("remove", c.id, 0, ok))
            /\ fails' = Failed(ok)
            /\ cs' = IF ok THEN DaemonRemove(c.id) ELSE cs
            /\ loc' = [loc EXCEPT !.i = @ + 1]
            /\ pc' = IF ok THEN pc ELSE "error"
  /\ UNCHANGED <<options, image, hashTab, opsDone>>

ScaleDone ==
  /\ pc = "scale_remove"
  /\ loc.i > Len(loc.containers)
  /\ pc' = "done"
  /\ UNCHANGED <<options, image, cs, hashTab, loc, log, opsDone, fails>>

\* ----------------------------------------------------------- converge
\* mutant: a container without a config-hash label is not taken as diverged
containers_have_diverged_ignores_absent(l) ==
  \E i \in 1..Len(l) : /\ l[i].labels[LABEL_CONFIG_HASH] # 0
                        /\ l[i].labels[LABEL_CONFIG_HASH] #
                             json_hash(hashTab, config_dict(options, image))

\* _containers_have_diverged: some container's config-hash label differs
\* from config_hash() (an absent label is 0 and differs from every hash)
containers_have_diverged(l) ==
  \E i \in 1..Len(l) : l[i].labels[LABEL_CONFIG_HASH] # config_hash

\* mutant: 'create' is planned when no container is running
convergence_plan_create_if_none_running(l, allow_recreate, smart_recreate) ==
  IF SelectSeq(l, IsRunning) = <<>> THEN [action |-> "create", containers |-> <<>>]
  ELSE IF smart_recreate /\ ~containers_have_diverged(l)
       THEN IF SelectSeq(l, IsStopped) # <<>>
            THEN [action |-> "start", containers |-> SelectSeq(l, IsStopped)]
            ELSE [action |-> "noop", containers |-> l]
  ELSE IF ~allow_recreate THEN [action |-> "start", containers |-> l]
  ELSE [action |-> "recreate", containers |-> l]

\* mutant: an up-to-date service gets the 'noop' plan though a container is
\* stopped
convergence_plan_noop_when_stopped(l, allow_recreate, smart_recreate) ==
  IF l = <<>> THEN [action |-> "create", containers |-> <<>>]
  ELSE IF smart_recreate /\ ~containers_have_diverged(l)
       THEN [action |-> "noop", containers |-> l]
  ELSE IF ~allow_recreate THEN [action |-> "start", containers |-> l]
  ELSE [action |-> "recreate", containers |-> l]

\* mutant: the 'start' plan of an up-to-date service lists every container
convergence_plan_start_all(l, allow_recreate, smart_recreate) ==
  IF l = <<>> THEN [action |-> "create", containers |-> <<>>]
  ELSE IF smart_recreate /\ ~containers_have_diverged(l)
       THEN IF SelectSeq(l, IsStopped) # <<>>
            THEN [action |-> "start", containers |-> l]
            ELSE [action |-> "noop", containers |-> l]
  ELSE IF ~allow_recreate THEN [action |-> "start", containers |-> l]
  ELSE [action |-> "recreate", containers |-> l]

\* convergence_plan (lines 278-294) on the listing l
convergence_plan(l, allow_recreate, smart_recreate) ==
  IF l = <<>> THEN [action |-> "create", containers |-> <<>>]
  ELSE IF smart_recreate /\ ~containers_have_diverged(l)
       THEN IF SelectSeq(l, IsStopped) # <<>>
            THEN [action |-> "start", containers |-> SelectSeq(l, IsStopped)]
            ELSE [action |-> "noop", containers |-> l]
  ELSE IF ~allow_recreate THEN [action |-> "start", containers |-> l]
  ELSE [action |-> "recreate", containers |-> l]

\* converge: plan = self.convergence_plan(allow_recreate, smart_recreate).
\* config_hash() reads self.image()['Id'] and raises when the image is absent.
ConvergeBegin ==
  /\ Idle
  /\ opsDone < MaxOps
  /\ \E allow \in BOOLEAN, smart \in BOOLEAN, l \in containers(TRUE, FALSE) :
       LET plan == convergence_plan(l, allow, smart)
           hashed == l # <<>> /\ smart
           start == [NoLoc EXCEPT !.op = "converge", !.allow = allow, !.smart = smart]
       IN IF hashed /\ image = 0
          THEN /\ pc' = "error"
               /\ loc' = start
               /\ hashTab' = hashTab
          ELSE /\ pc' = "execute"
               /\ loc' = [start EXCEPT !.action = plan.action, !.containers = plan.containers]
               /\ hashTab' = IF hashed THEN Remember(hashTab, config_dict(options, image))
                             ELSE hashTab
  /\ log' = <<>>
  /\ opsDone' = opsDone + 1
  /\ UNCHANGED <<options, image, cs, fails>>

\* where execute_convergence_plan goes for each action
FirstStep(action) ==
  IF action = "create" THEN "create"
  ELSE IF action = "recreate" THEN "recreate_stop"
  ELSE IF action = "start" THEN "start"
  ELSE "done"

\* converge: self.execute_convergence_plan(plan, insecure_registry, do_build).
\* It is passed the plan, not allow_recreate and smart_recreate; do_build is
\* read by the 'create' branch only.  'noop' returns the plan's containers.
Execute ==
  /\ pc = "execute"
  /\ \E do_build \in {b \in BOOLEAN : (loc.action # "create" \/ image # 0) => b} :
       loc' = [loc EXCEPT !.allow = FALSE, !.smart = FALSE, !.do_build = do_build,
                          !.i = 1,
                          !.ret = IF loc.action \in {"start", "noop"} THEN loc.containers
                                  ELSE <<>>]
  /\ pc' = FirstStep(loc.action)
  /\ UNCHANGED <<options, image, cs, hashTab, log, opsDone, fails>>

\* action == 'create': create_container(do_build=do_build)
ExecuteCreate ==
  /\ pc = "create"
  /\ \E o \in CreateOutcomes :
       LET r == create_container(o, FALSE, loc.do_build, 0, 0) IN
         /\ options' = r.options
         /\ image' = r.image
         /\ cs' = r.cs
         /\ hashTab' = r.hashTab
         /\ log' = log \o r.calls
         /\ fails' = Failed(o = "ok")
         /\ loc' = [loc EXCEPT !.new = r.container]
         /\ pc' = IF r.ok THEN "create_start" ELSE "error"
  /\ UNCHANGED opsDone

\* action == 'create': start_container(container); return [container]
ExecuteCreateStart ==
  /\ pc = "create_start"
  /\ \E ok \in Oks :
       /\ log' = Append(log, Call("start", loc.new.id, 0, ok))
       /\ fails' = Failed(ok)
       /\ cs' = IF ok THEN DaemonStart(loc.new.id) ELSE cs
       /\ loc' = IF ok THEN [loc EXCEPT !.ret = <<loc.new>>] ELSE loc
       /\ pc' = IF ok THEN "done" ELSE "error"
  /\ UNCHANGED <<options, image, hashTab, opsDone>>

\* recreate_container: container.stop() (lines 364-372)
RecreateStop ==
  /\ pc = "recreate_stop"
  /\ LET c == loc.containers[loc.i] IN
     \E o \in StopOutcomes :
       LET raised == o # "ok" /\ ~StopRecovered(StopErr(o)) IN
       /\ log' = Append(log, CallErr("stop", c.id, 0, StopErr(o)))
       /\ fails' = Failed(o = "ok")
       /\ cs' = IF o = "fail" THEN cs ELSE DaemonStop(c.id)
       /\ pc' = IF raised THEN "error" ELSE "recreate_rename"
  /\ UNCHANGED <<options, image, hashTab, loc, opsDone>>

\* recreate_container: client.rename (lines 375-377)
RecreateRename ==
  /\ pc = "recreate_rename"
  /\ LET c == loc.containers[loc.i] IN
     \E ok \in Oks :
       /\ log' = Append(log, Call("rename", c.id, 0, ok))
       /\ fails' = Failed(ok)
       /\ cs' = IF ok THEN DaemonRename(c.id) ELSE cs
       /\ pc' = IF ok THEN "recreate_create" ELSE "error"
  /\ UNCHANGED <<options, image, hashTab, loc, opsDone>>

\* mutant: recreate does not pass the number (None: the next number is taken)
RecreateNumber_none(c) == 0

\* number=container.labels.get(LABEL_CONTAINER_NUMBER)
RecreateNumber(c) == c.labels[LABEL_CONTAINER_NUMBER]

\* recreate_container: create_container(do_build=False,
\* previous_container=container, number=...) (lines 379-384)
RecreateCreate ==
  /\ pc = "recreate_create"
  /\ LET c == loc.containers[loc.i] IN
     \E o \in CreateOutcomes :
       LET r == create_container(o, FALSE, FALSE, c.id, RecreateNumber(c)) IN
         /\ options' = r.options
         /\ image' = r.image
         /\ cs' = r.cs
         /\ hashTab' = r.hashTab
         /\ log' = log \o r.calls
         /\ fails' = Failed(o = "ok")
         /\ loc' = [loc EXCEPT !.new = r.container]
         /\ pc' = IF r.ok THEN "recreate_start" ELSE "error"
  /\ UNCHANGED opsDone

\* mutant: an error of the replacement's start is swallowed
RecreateStart_swallow ==
  /\ pc = "recreate_start"
  /\ \E ok \in Oks :
       /\ log' = Append(log, Call("start", loc.new.id, 0, ok))
       /\ fails' = Failed(ok)
       /\ cs' = IF ok THEN DaemonStart(loc.new.id) ELSE cs
       /\ pc' = "recreate_remove"
  /\ UNCHANGED <<options, image, hashTab, loc, opsDone>>

\* recreate_container: start_container(new_container)
RecreateStart ==
  /\ pc = "recreate_start"
  /\ \E ok \in Oks :
       /\ log' = Append(log, Call("start", loc.new.id, 0, ok))
       /\ fails' = Failed(ok)
       /\ cs' = IF ok THEN DaemonStart(loc.new.id) ELSE cs
       /\ pc' = IF ok THEN "recreate_remove" ELSE "error"
  /\ UNCHANGED <<options, image, hashTab, loc, opsDone>>

\* recreate_container: container.remove(); return new_container, and the
\* list comprehension goes to the next container of the plan
RecreateRemove ==
  /\ pc = "recreate_remove"
  /\ LET c == loc.containers[loc.i] IN
     \E ok \in Oks :
       /\ log' = Append(log, Call("remove", c.id, 0, ok))
       /\ fails' = Failed(ok)
       /\ cs' = IF ok THEN DaemonRemove(c.id) ELSE cs
       /\ loc' = IF ok THEN [loc EXCEPT !.ret = Append(@, loc.new), !.i = @ + 1,
                                        !.new = NoContainer]
                  ELSE loc
       /\ pc' = IF ~ok THEN "error"
                ELSE IF loc.i < Len(loc.containers) THEN "recreate_stop" ELSE "done"
  /\ UNCHANGED <<options, image, hashTab, opsDone>>

\* mutant: start_container for every container of the plan
ExecuteStart_always ==
  /\ pc = "start"
  /\ loc.i <= Len(loc.containers)
  /\ LET c == loc.containers[loc.i] IN
     \E ok \in Oks :
       /\ log' = Append(log, Call("start", c.id, 0, ok))
       /\ fails' = Failed(ok)
       /\ cs' = IF ok THEN DaemonStart(c.id) ELSE cs
       /\ loc' = [loc EXCEPT !.i = @ + 1]
       /\ pc' = IF ok THEN pc ELSE "error"
  /\ UNCHANGED <<options, image, hashTab, opsDone>>

\* action == 'start': start_container_if_stopped(c) for c in containers
ExecuteStart ==
  /\ pc = "start"
  /\ loc.i <= Len(loc.containers)
  /\ LET c == loc.containers[loc.i] IN
     IF c.running
     THEN /\ loc' = [loc EXCEPT !.i = @ + 1]
          /\ UNCHANGED <<cs, log, pc, fails>>
     ELSE \E ok \in Oks :
            /\ log' = Append(log, Call("start", c.id, 0, ok))
            /\ fails' = Failed(ok)
            /\ cs' = IF ok THEN DaemonStart(c.id) ELSE cs
            /\ loc' = [loc EXCEPT !.i = @ + 1]
            /\ pc' = IF ok THEN pc ELSE "error"
  /\ UNCHANGED <<options, image, hashTab, opsDone>>

ExecuteStartDone ==
  /\ pc = "start"
  /\ loc.i > Len(loc.containers)
  /\ pc' = "done"
  /\ UNCHANGED <<options, image, cs, hashTab, loc, log, opsDone, fails>>

Next ==
  \/ ScaleBegin
  \/ ScaleCreate
  \/ ScalePartition
  \/ ScaleStop
  \/ ScaleStopDone
  \/ ScaleStart
  \/ ScaleStartDone
  \/ ScaleRemove
  \/ ScaleDone
  \/ ConvergeBegin
  \/ Execute
  \/ ExecuteCreate
  \/ ExecuteCreateStart
  \/ RecreateStop
  \/ RecreateRename
  \/ RecreateCreate
  \/ RecreateStart
  \/ RecreateRemove
  \/ ExecuteStart
  \/ ExecuteStartDone

Spec == Init /\ [][Next]_vars

\* ------------------------------------------------- create_container
\* Service.create_container called by itself (as the 'run' command does, with
\* one_off and override options) and Service.remove_stopped, on a Service
\* whose declared labels may use the engine's own keys.

\* a label value no engine label has
ForeignVal == 9

\* a labels dict that uses the engine's keys
ForeignLabels ==
  [k \in LabelKeys |->
     IF k \in {LABEL_PROJECT, LABEL_SERVICE, LABEL_ONE_OFF, LABEL_CONTAINER_NUMBER, LABEL_VERSION}
     THEN ForeignVal ELSE 0]

\* the override_options tried: none, one without labels (a command, say),
\* one with an empty labels dict, one whose labels use the engine's keys
Overrides ==
  {NoOverride,
   [given |-> TRUE, hasLabels |-> FALSE, labels |-> EmptyDict],
   [given |-> TRUE, hasLabels |-> TRUE, labels |-> EmptyDict],
   [given |-> TRUE, hasLabels |-> TRUE, labels |-> ForeignLabels]}

CreateOptions ==
  {[hasLabels |-> hl, labels |-> l, hostPort |-> FALSE, build |-> b] :
     hl \in BOOLEAN, l \in {EmptyDict, DictSet(EmptyDict, UserKey, UserVal), ForeignLabels},
     b \in BOOLEAN}

CreateInit ==
  /\ options \in {o \in CreateOptions : ~o.hasLabels => o.labels = EmptyDict}
  /\ image \in {0, ImageId}
  /\ hashTab = <<config_dict(options, ImageId), config_dict(options, OldImageId)>>
  /\ \E S \in SUBSET (1..MaxNum) :
       /\ Cardinality(S) <= MaxInit
       /\ \E ord \in ListOrders(S), run \in [S -> BOOLEAN] :
            /\ \A i, j \in 1..Cardinality(S) : i < j => ord[i] < ord[j]
            /\ cs = [i \in 1..Cardinality(S) |-> InitContainer(options, ord[i], run[ord[i]], 1)]
  /\ pc = "idle"
  /\ loc = NoLoc
  /\ log = <<>>
  /\ opsDone = 0
  /\ fails = 0

\* create_container(one_off, do_build, **override_options): lines 195-221;
\* do_build is varied where the image is absent (with the image present
\* ensure_image_exists returns before it reads it)
CreateContainer ==
  /\ Idle
  /\ opsDone < MaxOps
  /\ \E one_off \in BOOLEAN, ov \in Overrides, o \in CreateOutcomes,
        do_build \in {b \in BOOLEAN : image # 0 => b} :
       LET r == create_container_override(o, one_off, do_build, 0, 0, ov) IN
         /\ options' = r.options
         /\ image' = r.image
         /\ cs' = r.cs
         /\ hashTab' = r.hashTab
         /\ log' = r.calls
         /\ fails' = Failed(o = "ok")
         /\ loc' = [NoLoc EXCEPT !.op = "create", !.one_off = one_off, !.do_build = do_build,
                                 !.override = ov, !.new = r.container]
         /\ pc' = IF r.ok THEN "done" ELSE "error"
  /\ opsDone' = opsDone + 1

\* remove_stopped (lines 189-193): the containers listed and found stopped
\* are removed in the order of the listing; the first k removals succeed
RemoveStopped ==
  /\ Idle
  /\ opsDone < MaxOps
  /\ \E l \in containers(TRUE, FALSE) :
       LET st == SelectSeq(l, IsStopped) IN
       \E k \in 0..Len(st) :
         /\ k < Len(st) => fails < MaxFail
         /\ cs' = [i \in DOMAIN cs \ {st[j].id : j \in 1..k} |-> cs[i]]
         /\ log' = [j \in 1..(IF k < Len(st) THEN k + 1 ELSE k) |->
                      Call("remove", st[j].id, 0, j <= k)]
         /\ fails' = Failed(k = Len(st))
         /\ loc' = [NoLoc EXCEPT !.op = "remove_stopped", !.containers = l]
         /\ pc' = IF k = Len(st) THEN "done" ELSE "error"
  /\ opsDone' = opsDone + 1
  /\ UNCHANGED <<options, image, hashTab>>

CreateNext ==
  \/ CreateContainer
  \/ RemoveStopped

CreateSpec == CreateInit /\ [][CreateNext]_vars

\* ------------------------------------------------ merge_volume_bindings
\* merge_volume_bindings as a function of the declared volumes and the
\* previous container, on every input within the bounds.
VolumeLists == UNION {[1..n -> VolumeStrings] : n \in 0..MaxVols}

PreviousContainers ==
  {NoPrevious} \cup
  {[has |-> TRUE, Volumes |-> v, image_volumes |-> iv] :
     v \in [IntPaths -> HostPaths \cup {""}], iv \in SUBSET IntPaths}

VolInit ==
  /\ options = [hasLabels |-> FALSE, labels |-> EmptyDict, hostPort |-> FALSE, build |-> FALSE]
  /\ image = ImageId
  /\ hashTab = <<>>
  /\ cs = <<>>
  /\ pc = "idle"
  /\ \E vo \in VolumeLists, prev \in PreviousContainers :
       loc = [NoLoc EXCEPT !.op = "merge_volume_bindings", !.volumes_option = vo,
                           !.previous_container = prev]
  /\ log = <<>>
  /\ opsDone = 0
  /\ fails = 0

MergeVolumeBindings ==
  /\ pc = "idle"
  /\ loc.op = "merge_volume_bindings"
  /\ \E order \in VolumeOrders(loc.previous_container, loc.volumes_option) :
       loc' = [loc EXCEPT !.binds = merge_volume_bindings(loc.volumes_option,
                                                          loc.previous_container, order)]
  /\ pc' = "done"
  /\ UNCHANGED <<options, image, cs, hashTab, log, opsDone, fails>>

VolNext == MergeVolumeBindings

VolSpec == VolInit /\ [][VolNext]_vars

\* ---------------------------------------------------- can_be_scaled
\* can_be_scaled as a function of the 'ports' and 'expose' options, on every
\* input within the bounds.  The hostPort flag of the option map of the
\* other specifications is its negation.
PortLists == UNION {[1..n -> PortEntries] : n \in 0..MaxPorts}

ExposeLists == UNION {[1..n -> ExposeEntries] : n \in 0..MaxPorts}

PortOptions ==
  {[hasPorts |-> hp, ports |-> ps, expose |-> ex] :
     hp \in BOOLEAN, ps \in PortLists, ex \in ExposeLists}

PortInit ==
  /\ options = [hasLabels |-> FALSE, labels |-> EmptyDict, hostPort |-> FALSE, build |-> FALSE]
  /\ image = ImageId
  /\ hashTab = <<>>
  /\ cs = <<>>
  /\ pc = "idle"
  /\ \E o \in {po \in PortOptions : ~po.hasPorts => po.ports = <<>>} :
       loc = [NoLoc EXCEPT !.op = "can_be_scaled", !.port_options = o]
  /\ log = <<>>
  /\ opsDone = 0
  /\ fails = 0

CanBeScaled ==
  /\ pc = "idle"
  /\ loc.op = "can_be_scaled"
  /\ loc' = [loc EXCEPT !.scalable = can_be_scaled_ports(loc.port_options)]
  /\ pc' = "done"
  /\ UNCHANGED <<options, image, cs, hashTab, log, opsDone, fails>>

PortNext == CanBeScaled

PortSpec == PortInit /\ [][PortNext]_vars

\* =================================================================
\* create_container through volumes_from: several services, each with a
\* volumes_from list whose entries are services or a container.  All images
\* are present.  loc.stack holds the create_container calls in progress,
\* innermost last; a frame is the service, the position of its
\* _get_volumes_from loop and the ids collected so far.  cs maps an id to
\* the container's service, running flag and volumes_from ids.
\* =================================================================
Services == 1..NumServices

\* a volumes_from entry that is a Container, not a Service
ContainerSource == 0

Sources == Services \cup {ContainerSource}

SourceLists == UNION {[1..n -> Sources] : n \in 0..MaxSources}

\* volume_source.containers(stopped=True)
containers_of(s) == {i \in DOMAIN cs : cs[i].service = s}

\* the daemon at the start: at most one container per service, ids ascending
InitDaemons ==
  {d \in UNION {[1..n -> Services] : n \in 0..NumServices} :
     \A i, j \in DOMAIN d : i < j => d[i] < d[j]}

Frame(s) == [service |-> s, i |-> 1, volumes_from |-> <<>>]

Top == loc.stack[Len(loc.stack)]

SetTop(f) == [loc.stack EXCEPT ![Len(loc.stack)] = f]

VfInit ==
  /\ options = [hasLabels |-> FALSE, labels |-> EmptyDict, hostPort |-> FALSE, build |-> FALSE]
  /\ image = ImageId
  /\ hashTab = <<>>
  /\ \E d \in InitDaemons :
       cs = [i \in DOMAIN d |-> [service |-> d[i], running |-> TRUE, volumes_from |-> <<>>]]
  /\ pc = "idle"
  /\ \E g \in [Services -> SourceLists] :
       loc = [NoLoc EXCEPT !.op = "volumes_from", !.volumes_from = g]
  /\ log = <<>>
  /\ opsDone = 0
  /\ fails = 0

\* service.create_container() is called on one of the services
VolumesFromBegin ==
  /\ pc = "idle"
  /\ loc.op = "volumes_from"
  /\ \E s \in Services : loc' = [loc EXCEPT !.stack = <<Frame(s)>>]
  /\ pc' = "volumes_from"
  /\ UNCHANGED <<options, image, cs, hashTab, log, opsDone, fails>>

\* the entry of the loop _get_volumes_from is at
VolumeSource == loc.volumes_from[Top.service][Top.i]

InLoop ==
  /\ pc = "volumes_from"
  /\ Top.i <= Len(loc.volumes_from[Top.service])

\* isinstance(volume_source, Container): volumes_from.append(volume_source.id)
VolumesFromContainer ==
  /\ InLoop
  /\ VolumeSource = ContainerSource
  /\ loc' = [loc EXCEPT !.stack = SetTop([Top EXCEPT !.i = @ + 1,
                                                    !.volumes_from = Append(@, ContainerSource)])]
  /\ UNCHANGED <<options, image, cs, hashTab, pc, log, opsDone, fails>>

\* the source service has containers: volumes_from.extend(their ids)
VolumesFromExisting ==
  /\ InLoop
  /\ VolumeSource \in Services
  /\ containers_of(VolumeSource) # {}
  /\ \E l \in ListOrders(containers_of(VolumeSource)) :
       loc' = [loc EXCEPT !.stack = SetTop([Top EXCEPT !.i = @ + 1,
                                                      !.volumes_from = @ \o l])]
  /\ UNCHANGED <<options, image, cs, hashTab, pc, log, opsDone, fails>>

\* the source service has none: volume_source.create_container() is entered
VolumesFromCreate ==
  /\ InLoop
  /\ VolumeSource \in Services
  /\ containers_of(VolumeSource) = {}
  /\ Len(loc.stack) < RecursionLimit
  /\ loc' = [loc EXCEPT !.stack = Append(@, Frame(VolumeSource))]
  /\ UNCHANGED <<options, image, cs, hashTab, pc, log, opsDone, fails>>

\* the same call with the interpreter's stack used up: RuntimeError, which no
\* caller handles
VolumesFromOverflow ==
  /\ InLoop
  /\ VolumeSource \in Services
  /\ containers_of(VolumeSource) = {}
  /\ Len(loc.stack) >= RecursionLimit
  /\ loc' = [loc EXCEPT !.exc = "RuntimeError"]
  /\ pc' = "error"
  /\ UNCHANGED <<options, image, cs, hashTab, log, opsDone, fails>>

\* create_container: Container.create(self.client, **container_options) after
\* the loop; the container goes to the caller's volumes_from list
ContainerCreate ==
  /\ pc = "volumes_from"
  /\ Top.i > Len(loc.volumes_from[Top.service])
  /\ \E ok \in Oks :
       LET id == Len(cs) + 1
           c == [service |-> Top.service, running |-> FALSE, volumes_from |-> Top.volumes_from]
           rest == SubSeq(loc.stack, 1, Len(loc.stack) - 1)
       IN /\ log' = Append(log, Call("create", IF ok THEN id ELSE 0, Top.service, ok))
          /\ fails' = Failed(ok)
          /\ cs' = IF ok THEN Append(cs, c) ELSE cs
          /\ IF ~ok
             THEN loc' = [loc EXCEPT !.exc = "APIError"] /\ pc' = "error"
             ELSE IF rest = <<>>
             THEN loc' = [loc EXCEPT !.stack = rest, !.ret = <<id>>] /\ pc' = "done"
             ELSE /\ loc' = [loc EXCEPT !.stack =
                               [rest EXCEPT ![Len(rest)] =
                                  [@ EXCEPT !.i = @ + 1, !.volumes_from = Append(@, id)]]]
                  /\ pc' = pc
  /\ UNCHANGED <<options, image, hashTab, opsDone>>

VfNext ==
  \/ VolumesFromBegin
  \/ VolumesFromContainer
  \/ VolumesFromExisting
  \/ VolumesFromCreate
  \/ VolumesFromOverflow
  \/ ContainerCreate

VfSpec == VfInit /\ [][VfNext]_vars

\* =================================================================
\* Properties
\* =================================================================
\* the containers of the service (one_off = False) on the daemon
Mine == {i \in DOMAIN cs : Matches(cs[i], FALSE)}

Number(i) == cs[i].labels[LABEL_CONTAINER_NUMBER]

RunningIds == {i \in Mine : cs[i].running}

StoppedIds == {i \in Mine : ~cs[i].running}

IsStartCall(e) == e.call = "start"

IsStopCall(e) == e.call = "stop"

IsRemoveCall(e) == e.call = "remove"

IsCreateCall(e) == e.call = "create"

Ids(l) == {l[k].id : k \in 1..Len(l)}

ScaleReturned == pc = "done" /\ loc.op = "scale"

ConvergeReturned == pc = "done" /\ loc.op = "converge"

\* C1: when scale(n) returns without error, exactly n containers of the
\* service are running and no stopped container of the service is left.
C1_ScalePostcondition ==
  ScaleReturned => Cardinality(RunningIds) = loc.n /\ StoppedIds = {}

\* C1 witness: a scale(1) returned after stopping and removing a container
C1_Witness ==
  /\ ScaleReturned
  /\ loc.n = 1
  /\ SelectSeq(log, IsStopCall) # <<>>
  /\ SelectSeq(log, IsRemoveCall) # <<>>

\* the plans a converge(smart_recreate=True) called now would compute
PlansNow(allow) == {convergence_plan(l, allow, TRUE) : l \in containers(TRUE, FALSE)}

\* C2: after a converge that created or recreated the containers returned,
\* a second converge with smart_recreate=true, nothing else having changed,
\* plans 'noop'.
C2_SecondConvergeIsNoop ==
  (ConvergeReturned /\ loc.action \in {"create", "recreate"})
    => \A allow \in BOOLEAN : \A plan \in PlansNow(allow) : plan.action = "noop"

\* C3 as claimed: in every state the containers of the service have pairwise
\* distinct positive numbers.
C3_NumbersDistinct ==
  \A i, j \in Mine : Number(i) > 0 /\ (i # j => Number(i) # Number(j))

\* C3 amended: every container of the service has a positive number; a
\* container created outside recreate gets a number that no container of the
\* service holds, and the replacement recreate creates gets the number of the
\* original, which still holds it.
C3_NumbersFreshOutsideRecreate ==
  /\ [](\A i \in Mine : Number(i) > 0)
  /\ [][\A id \in DOMAIN cs' \ DOMAIN cs :
          IF pc = "recreate_create"
          THEN /\ cs'[id].labels[LABEL_CONTAINER_NUMBER]
                    = loc.containers[loc.i].labels[LABEL_CONTAINER_NUMBER]
               /\ loc.containers[loc.i].id \in Mine
          ELSE \A j \in Mine : Number(j) # cs'[id].labels[LABEL_CONTAINER_NUMBER]]_vars

\* C3 witness: a recreate has created the replacement and the original is
\* still on the daemon
C3_Witness ==
  /\ pc = "recreate_start"
  /\ loc.new.id \in Mine
  /\ loc.containers[loc.i].id \in Mine

\* the calls recreate_container issues for one container, in order
RecreateProtocol == <<"stop", "rename", "create", "start", "remove">>

\* the log of a recreate plan is the protocol of the plan's containers, one
\* container after the other in the order of the plan's list; a call that
\* failed is the last one, but for a stop (the "no such process" answer).
\* The create step is create_container: when its image inspection fails, that
\* call stands in the place of the create and is the last one.
RecreateLogInOrder ==
  \A k \in 1..Len(log) :
    LET j == ((k - 1) \div 5) + 1
        r == ((k - 1) % 5) + 1
        c == loc.containers[j]
    IN /\ j <= Len(loc.containers)
       /\ \/ log[k].call = RecreateProtocol[r]
          \/ r = 3 /\ log[k].call = "inspect_image" /\ ~log[k].ok /\ k = Len(log)
       /\ r \in {1, 2, 5} => log[k].id = c.id
       /\ (r = 3 /\ log[k].call = "create") => log[k].arg = c.id
       /\ r = 4 => log[k].id = log[k - 1].id /\ log[k].id # c.id
       /\ k < Len(log) => log[k].ok \/ r = 1

\* the container the create step of a recreate adds to the daemon
Replacement(id) == cs'[id]

Planned == pc = "execute"

\* the plan lists exactly the containers S, each once
PlanLists(S) == Ids(loc.containers) = S /\ Len(loc.containers) = Cardinality(S)

HashLabel(i) == cs[i].labels[LABEL_CONFIG_HASH]

\* C5: convergence_plan returns ('create', []) if and only if no container
\* of the service, running or stopped, is on the daemon.
C5_CreateIffNoContainers ==
  Planned => /\ (loc.action = "create") <=> (Mine = {})
             /\ loc.action = "create" => loc.containers = <<>>

\* C5 witness: 'create' is planned after an earlier operation left no container
C5_Witness == Planned /\ loc.action = "create" /\ opsDone = 2

\* C6: with smart_recreate, at least one container and every config-hash
\* label equal to the current fingerprint, the plan is 'start' on exactly the
\* containers that are not running if there is one, 'noop' on all containers
\* otherwise, whatever allow_recreate is.
C6_SmartUpToDatePlan ==
  (Planned /\ loc.smart /\ Mine # {} /\ \A i \in Mine : HashLabel(i) = config_hash)
    => IF StoppedIds # {}
       THEN loc.action = "start" /\ PlanLists(StoppedIds)
       ELSE loc.action = "noop" /\ PlanLists(Mine)

\* C6 witness: an up-to-date service with a running and a stopped container,
\* allow_recreate set
C6_Witness ==
  /\ Planned /\ loc.smart /\ loc.allow
  /\ \A i \in Mine : HashLabel(i) = config_hash
  /\ StoppedIds # {}
  /\ RunningIds # {}

\* C7: with at least one container, and smart_recreate false or some
\* config-hash label different from the current fingerprint or absent, the
\* plan lists all containers of the service: 'recreate' if allow_recreate,
\* 'start' otherwise.
C7_DivergedPlan ==
  (Planned /\ Mine # {} /\ (~loc.smart \/ \E i \in Mine : HashLabel(i) # config_hash))
    => /\ loc.action = (IF loc.allow THEN "recreate" ELSE "start")
       /\ PlanLists(Mine)

\* C7 witness: smart_recreate, one container up to date and running, another
\* without a config-hash label
C7_Witness ==
  /\ Planned /\ loc.smart
  /\ \E i, j \in Mine : /\ HashLabel(i) = config_hash /\ cs[i].running
                        /\ HashLabel(j) = 0

\* the start, stop and create calls of the log, in the order issued
Starts == SelectSeq(log, IsStartCall)

Stops == SelectSeq(log, IsStopCall)

IsCreated(e) == e.call = "create" /\ e.ok

Creates == SelectSeq(log, IsCreated)

\* the calls of l are on containers of ascending (strictly: distinct and
\* ascending) container number
Ascending(l) == \A a, b \in 1..Len(l) : a < b => Number(l[a].id) <= Number(l[b].id)

StrictlyDescending(l) == \A a, b \in 1..Len(l) : a < b => Number(l[a].id) > Number(l[b].id)

Descending(l) == \A a, b \in 1..Len(l) : a < b => Number(l[a].id) >= Number(l[b].id)

\* C8 as claimed: the start calls of one scale or one converge are issued in
\* ascending container-number order.
C8_StartsAscending == loc.op \in {"scale", "converge"} => Ascending(Starts)

\* the containers of the plan's list that execute_convergence_plan has gone
\* through and found stopped, in the order of the list
PlanStoppedSoFar == SelectSeq(SubSeq(loc.containers, 1, loc.i - 1), IsStopped)

\* C8 amended: scale issues its start calls in ascending container-number
\* order; the 'start' plan of execute_convergence_plan issues them in the
\* order of the plan's list, which is the order of the daemon's listing.
C8_ScaleStartsAscendingPlanStartsInListOrder ==
  /\ loc.op = "scale" => Ascending(Starts)
  /\ (loc.op = "converge" /\ loc.action = "start" /\ pc # "execute")
       => /\ Len(Starts) = Len(PlanStoppedSoFar)
          /\ \A k \in 1..Len(Starts) : Starts[k].id = PlanStoppedSoFar[k].id

\* C8 witness: a scale has started two containers of different numbers
C8_Witness ==
  /\ loc.op = "scale"
  /\ Len(Starts) = 2
  /\ Starts[1].ok /\ Starts[2].ok
  /\ Number(Starts[1].id) # Number(Starts[2].id)

\* a scale that has stopped containers and removed none yet
ScaleStopping ==
  /\ loc.op = "scale"
  /\ Stops # <<>>
  /\ SelectSeq(log, IsRemoveCall) = <<>>

\* the parts of C9 that do not depend on the order of the stop calls: stops
\* are issued only while more than n containers run, each with timeout 1; a
\* container left running has no higher number than a stopped one; scale
\* returns with n running and every stopped container removed
ScaleDownFrame ==
  /\ (loc.op = "scale" /\ pc # "error")
       => /\ \A k \in 1..Len(Stops) : Stops[k].arg = 1 /\ Stops[k].ok
          /\ Stops # <<>> => Len(loc.running) >= loc.n
  /\ (ScaleStopping /\ pc # "error")
       => \A k \in 1..Len(Stops) : \A r \in 1..Len(loc.running) :
            /\ Number(loc.running[r].id) <= Number(Stops[k].id)
            /\ loc.running[r].id # Stops[k].id
            /\ cs[loc.running[r].id].running
  /\ (ScaleReturned /\ Stops # <<>>)
       => /\ Cardinality(RunningIds) = loc.n
          /\ \A k \in 1..Len(Stops) : Stops[k].id \notin DOMAIN cs

\* C9 as claimed: scale(n) stops the running containers in excess of n one
\* at a time in strictly descending container-number order, each with timeout
\* 1, never one of the n lowest-numbered, and removes each before it returns.
C9_ScaleDownStrictlyDescending ==
  /\ ScaleDownFrame
  /\ ScaleStopping => StrictlyDescending(Stops)
  /\ (ScaleStopping /\ pc # "error")
       => \A k \in 1..Len(Stops) : \A r \in 1..Len(loc.running) :
            Number(loc.running[r].id) < Number(Stops[k].id)

\* C9 amended: scale(n) stops the running containers in excess of n one at a
\* time, each with timeout 1, in descending container-number order where
\* containers of equal number may follow one another; no container it leaves
\* running has a higher number than one it stopped; it returns with exactly n
\* running and every container it stopped removed.
C9_ScaleDownDescending ==
  /\ ScaleDownFrame
  /\ ScaleStopping => Descending(Stops)

\* C9 witness: a scale has stopped two containers, the higher-numbered first
C9_Witness ==
  /\ ScaleStopping
  /\ Len(Stops) = 2
  /\ Number(Stops[1].id) > Number(Stops[2].id)

\* the containers that existed when the scale began: those not created by it
ExistingBefore == Mine \ Ids(Creates)

\* the highest number among the containers that existed, 0 when there were none
MaxExisting == Max({Number(i) : i \in ExistingBefore} \cup {0})

\* C10: when scale(n) finds k < n containers, it creates exactly n - k new
\* ones, numbered consecutively from max(existing numbers) + 1, starts them,
\* and issues no stop, restart or remove call.
C10_ScaleUp ==
  (loc.op = "scale" /\ loc.found < loc.n)
    => /\ Len(Creates) <= loc.n - loc.found
       /\ pc \in {"scale_stop", "scale_start", "scale_remove", "done"}
            => Len(Creates) = loc.n - loc.found
       /\ \A k \in 1..Len(Creates) :
            /\ Creates[k].id \in Mine
            /\ Number(Creates[k].id) = MaxExisting + k
       /\ \A k \in 1..Len(log) : log[k].call \notin {"stop", "restart", "kill", "rename", "remove"}
       /\ pc = "done" => \A k \in 1..Len(Creates) : cs[Creates[k].id].running

\* C10 witness: scale(2) found one container, created one more and returned
C10_Witness ==
  /\ ScaleReturned
  /\ loc.found = 1
  /\ loc.n = 2
  /\ Len(Creates) = 1

\* C12: scale(n) on a service with a host-side port binding raises
\* CannotBeScaled before any runtime call: nothing is listed, created,
\* started, stopped or removed.
C12_CannotBeScaledBeforeAnyCall ==
  [][(opsDone' = opsDone + 1 /\ loc'.op = "scale" /\ options.hostPort)
       => /\ pc' = "error"
          /\ log' = <<>>
          /\ loc'.containers = <<>>
          /\ cs' = cs
          /\ image' = image]_vars

\* C12 witness: scale(2) on a service with a host port has raised while the
\* daemon holds a container of the service
C12_Witness ==
  /\ loc.op = "scale"
  /\ loc.n = 2
  /\ options.hostPort
  /\ pc = "error"
  /\ Mine # {}

\* the position of the last call of the log
Last == Len(log)

\* C13: in recreate a stop that fails with "no such process" is passed over
\* and the rename of the same container follows; any other stop failure ends
\* the operation and the container is neither renamed, replaced nor removed.
C13_StopNoSuchProcessRecovered ==
  (loc.op = "converge" /\ loc.action = "recreate")
    => \A k \in 1..Len(log) :
         log[k].call = "stop"
           => /\ log[k].err = "no such process"
                   => IF k = Last THEN pc = "recreate_rename"
                      ELSE log[k + 1].call = "rename" /\ log[k + 1].id = log[k].id
              /\ log[k].err = "error"
                   => /\ k = Last
                      /\ pc = "error"
                      /\ log[k].id \in DOMAIN cs
                      /\ cs[log[k].id].name = loc.containers[loc.i].name
                      /\ loc.containers[loc.i].id = log[k].id

\* C13 witness: a stop answered "no such process" was followed by the rename,
\* the create and the start of the replacement
C13_Witness ==
  /\ loc.op = "converge"
  /\ \E k \in 1..Len(log) :
       /\ log[k].call = "stop" /\ log[k].err = "no such process"
       /\ k + 1 <= Len(log)
       /\ log[k + 1].call = "rename" /\ log[k + 1].ok
  /\ pc = "recreate_remove"

\* a call of the log that raised: it failed and was not passed over
Raised(e) == ~e.ok /\ ~(e.call = "stop" /\ StopRecovered(e.err))

\* a step whose last runtime call raised
RaisesNow == Len(log') > 0 /\ log' # log /\ Raised(log'[Len(log')])

\* C14: a runtime call that fails in the middle of converge or scale ends the
\* operation at that call: the failed call is the last one issued, it changes
\* no container, nothing is retried or rolled back, and the only thing that
\* follows is the next operation.  A create that fails during recreate leaves
\* the original stopped and renamed, not removed.
C14_FailureEndsOperation ==
  [][/\ RaisesNow
          => /\ pc' = "error"
             /\ cs' = cs
             /\ \A k \in 1..(Len(log') - 1) : ~Raised(log'[k])
     /\ pc = "error"
          => /\ opsDone' = opsDone + 1
             /\ cs' = cs
     /\ (RaisesNow /\ pc = "recreate_create")
          => LET c == loc.containers[loc.i] IN
               /\ c.id \in DOMAIN cs'
               /\ ~cs'[c.id].running
               /\ cs'[c.id].name = [c.name EXCEPT !.pre = <<c.id>> \o @]]_vars

\* C14 witness: the create of a recreate failed and the renamed, stopped
\* original is still on the daemon
C14_Witness ==
  /\ pc = "error"
  /\ loc.op = "converge"
  /\ loc.action = "recreate"
  /\ log # <<>>
  /\ log[Last].call = "create"
  /\ Raised(log[Last])
  /\ loc.containers[loc.i].id \in DOMAIN cs
  /\ cs[loc.containers[loc.i].id].name.pre # <<>>

\* C17: converge on a service with no containers creates exactly one
\* container, named <project>_<service>_1 with number 1, starts it and returns
\* it; containers() then returns exactly that container.
C17_FirstConvergeCreatesNumberOne ==
  (ConvergeReturned /\ loc.action = "create")
    => /\ Len(Creates) = 1
       /\ Len(loc.ret) = 1
       /\ loc.ret[1].id = Creates[1].id
       /\ Mine = {loc.ret[1].id}
       /\ LET c == cs[loc.ret[1].id] IN
            /\ c.name = [pre |-> <<>>, num |-> 1, one_off |-> FALSE]
            /\ c.labels[LABEL_CONTAINER_NUMBER] = 1
            /\ c.running
       /\ Len(Starts) = 1 /\ Starts[1].id = loc.ret[1].id /\ Starts[1].ok
       /\ containers(FALSE, FALSE) = {<<Container(loc.ret[1].id)>>}

\* C17 witness: a converge that found no container has returned its new one
C17_Witness ==
  /\ ConvergeReturned
  /\ loc.action = "create"
  /\ Len(loc.ret) = 1
  /\ cs[loc.ret[1].id].running

\* a step that is one create_container call, and one that returned a container
CreateStep == opsDone' = opsDone + 1 /\ loc'.op = "create"

Created == CreateStep /\ pc' = "done"

\* the labels of the container the step created
NewLabels == cs'[loc'.new.id].labels

\* the calls of the step's log with the given name
CallsOf(l, call) == SelectSeq(l, LAMBDA e : e.call = call)

\* C11: a container created by create_container carries a config_hash label
\* if and only if the call is neither one-off nor given override options, and
\* the label then equals the config fingerprint at the moment of creation,
\* whatever create_container calls came before on the same Service object.
C11_ConfigHashIffRegular ==
  [][Created
       => /\ NewLabels[LABEL_CONFIG_HASH] # 0 <=> (~loc'.one_off /\ ~loc'.override.given)
          /\ NewLabels[LABEL_CONFIG_HASH] # 0
               => NewLabels[LABEL_CONFIG_HASH] = json_hash(hashTab, config_dict(options, image'))]_vars

\* C15: ensure_image_exists follows its decision table.  Image present:
\* neither build nor pull.  Absent, buildable, do_build: build.  Absent,
\* buildable, not do_build: NeedsBuild, no container created.  Absent, not
\* buildable: pull.  An inspection failure other than the 404 propagates
\* without build or pull.
C15_EnsureImageDecisionTable ==
  [][CreateStep
       => LET builds == Len(CallsOf(log', "build"))
              pulls == Len(CallsOf(log', "pull"))
              creates == Len(CallsOf(log', "create"))
              inspectFailed == CallsOf(log', "inspect_image") # <<>>
          IN /\ inspectFailed
                  => builds = 0 /\ pulls = 0 /\ creates = 0 /\ pc' = "error" /\ cs' = cs
             /\ (~inspectFailed /\ image # 0) => builds = 0 /\ pulls = 0
             /\ (~inspectFailed /\ image = 0 /\ options.build /\ loc'.do_build)
                  => builds = 1 /\ pulls = 0
             /\ (~inspectFailed /\ image = 0 /\ options.build /\ ~loc'.do_build)
                  => builds = 0 /\ pulls = 0 /\ creates = 0 /\ pc' = "error" /\ cs' = cs
             /\ (~inspectFailed /\ image = 0 /\ ~options.build)
                  => builds = 0 /\ pulls = 1]_vars

\* C15 witness: create_container(do_build=False) on a buildable service
\* without image has raised with no call issued
C15_Witness ==
  /\ loc.op = "create"
  /\ pc = "error"
  /\ image = 0
  /\ options.build
  /\ ~loc.do_build
  /\ log = <<>>

\* C16: every container the engine creates carries the project, service,
\* one_off, container_number and version labels with the values of the
\* creating service and call; declared or override labels with these keys
\* never replace them.
C16_EngineLabels ==
  [][Created
       => /\ NewLabels[LABEL_PROJECT] = ProjectVal
          /\ NewLabels[LABEL_SERVICE] = ServiceVal
          /\ NewLabels[LABEL_ONE_OFF] = OneOffVal(loc'.one_off)
          /\ NewLabels[LABEL_CONTAINER_NUMBER] = loc'.new.name.num
          /\ NewLabels[LABEL_CONTAINER_NUMBER] >= 1
          /\ NewLabels[LABEL_VERSION] = VersionVal]_vars

\* C16 witness: a one-off container was created with override labels that use
\* the engine's keys, on a service whose declared labels use them too
C16_Witness ==
  /\ loc.op = "create"
  /\ pc = "done"
  /\ loc.one_off
  /\ loc.override.hasLabels
  /\ loc.override.labels = ForeignLabels
  /\ options.hasLabels
  /\ options.labels[LABEL_PROJECT] # 0
  /\ cs[loc.new.id].labels[LABEL_PROJECT] = ProjectVal

\* the containers that carry the three labels of the triple, read off the
\* daemon's state
OfTriple(c, one_off) ==
  {i \in DOMAIN c : /\ c[i].labels[LABEL_PROJECT] = ProjectVal
                    /\ c[i].labels[LABEL_SERVICE] = ServiceVal
                    /\ c[i].labels[LABEL_ONE_OFF] = OneOffVal(one_off)}

\* C18: the number a new container gets is 1 when no container, running or
\* stopped, carries the service's labels for the call's one_off value, and
\* the highest of their numbers plus 1 otherwise; one-off and regular
\* containers are numbered apart and a gap below the highest is not refilled.
C18_NextContainerNumber ==
  [][Created
       => LET same == OfTriple(cs, loc'.one_off)
          IN NewLabels[LABEL_CONTAINER_NUMBER] =
               IF same = {} THEN 1
               ELSE Max({cs[i].labels[LABEL_CONTAINER_NUMBER] : i \in same}) + 1]_vars

\* C18 witness: with regular containers 2 and 3 and no regular container 1, a
\* one-off container was numbered 1
C18_Witness ==
  /\ loc.op = "create"
  /\ pc = "done"
  /\ loc.one_off
  /\ cs[loc.new.id].labels[LABEL_CONTAINER_NUMBER] = 1
  /\ {cs[i].labels[LABEL_CONTAINER_NUMBER] : i \in OfTriple(cs, FALSE)} = {2, 3}

\* the result of a finished merge_volume_bindings call
Merged == loc.op = "merge_volume_bindings" /\ pc = "done"

\* C19: with a previous container, every binding of a declared volume with an
\* explicit external side is in the result unchanged: no carried-over data
\* volume replaces or removes it.
C19_ExternalVolumesAlwaysWin ==
  (Merged /\ loc.previous_container.has)
    => LET declared == DictOfPairs(DeclaredPairs(loc.volumes_option))
       IN \A h \in HostPaths : declared[h] # NoBinding => loc.binds[h] = declared[h]

\* C20: for a previous container with Volumes[int] = host and a declared
\* volume int without external side, the result binds int to host.
C20_DataVolumesMigrate ==
  (Merged /\ loc.previous_container.has)
    => \A k \in 1..Len(loc.volumes_option) :
         LET v == loc.volumes_option[k]
             host == loc.previous_container.Volumes[v[1]]
         IN (Len(v) = 1 /\ host # "") => loc.binds[host].bind = v[1]

\* C21: can_be_scaled returns false if and only if at least one entry of the
\* declared ports, stringified, contains ':'; the expose entries do not count.
C21_CanBeScaledIffNoHostPort ==
  (loc.op = "can_be_scaled" /\ pc = "done")
    => (~loc.scalable
          <=> /\ loc.port_options.hasPorts
              /\ \E k \in 1..Len(loc.port_options.ports) :
                   \E i \in 1..Len(Str(loc.port_options.ports[k])) :
                     Str(loc.port_options.ports[k])[i] = ":")

\* C21 witness: can_be_scaled returned true for ports [80, "80/tcp"] though
\* an expose entry contains ':'
C21_Witness ==
  /\ loc.op = "can_be_scaled"
  /\ pc = "done"
  /\ loc.scalable
  /\ Len(loc.port_options.ports) = 2
  /\ loc.port_options.ports[1].int
  /\ \E k \in 1..Len(loc.port_options.expose) : Contains(Str(loc.port_options.expose[k]), ":")

\* the containers of the plan's list that were not running when listed
PlanStoppedIds == {loc.containers[j].id : j \in {k \in 1..Len(loc.containers) : ~loc.containers[k].running}}

\* C22: a 'noop' plan issues no runtime call and changes no container; a
\* 'start' plan issues start calls only, one for each listed container that
\* is not running, and changes nothing else; both return the plan's list.
C22_NoopAndStartFrame ==
  /\ []((loc.op = "converge" /\ loc.action = "noop" /\ pc # "execute")
          => /\ log = <<>>
             /\ pc = "done" => loc.ret = loc.containers)
  /\ []((loc.op = "converge" /\ loc.action = "start" /\ pc # "execute")
          => /\ \A k \in 1..Len(log) : log[k].call = "start" /\ log[k].id \in PlanStoppedIds
             /\ \A k, m \in 1..Len(log) : log[k].id = log[m].id => k = m
             /\ pc = "done"
                  => /\ loc.ret = loc.containers
                     /\ \A i \in PlanStoppedIds : \E k \in 1..Len(log) : log[k].id = i /\ log[k].ok)
  /\ [][(loc.op = "converge" /\ loc.action \in {"noop", "start"} /\ pc \in {"execute", "start"})
          => /\ loc'.containers = loc.containers
             /\ DOMAIN cs' = DOMAIN cs
             /\ loc.action = "noop" => cs' = cs
             /\ \A i \in DOMAIN cs :
                  \/ cs'[i] = cs[i]
                  \/ i \in PlanStoppedIds /\ cs'[i] = [cs[i] EXCEPT !.running = TRUE]]_vars

\* C22 witness: a 'start' plan over a running and a stopped container has
\* returned after one start call
C22_Witness ==
  /\ ConvergeReturned
  /\ loc.action = "start"
  /\ Len(loc.containers) = 2
  /\ Cardinality(PlanStoppedIds) = 1
  /\ Len(log) = 1

\* C24: in a recreate the original is removed only after its replacement was
\* created and started: at every point of the plan, also after a failure,
\* each original of the plan either still exists or has a running replacement
\* of the same container number.
C24_OriginalOrStartedReplacement ==
  (loc.op = "converge" /\ loc.action = "recreate" /\ pc # "execute")
    => \A j \in 1..Len(loc.containers) :
         LET c == loc.containers[j] IN
           \/ c.id \in DOMAIN cs
           \/ \E k \in 1..Len(log) :
                /\ log[k].call = "create" /\ log[k].ok /\ log[k].arg = c.id
                /\ log[k].id \in DOMAIN cs
                /\ cs[log[k].id].running
                /\ Number(log[k].id) = c.labels[LABEL_CONTAINER_NUMBER]

\* C24 witness: the original of a recreate has been removed
C24_Witness ==
  /\ loc.op = "converge"
  /\ loc.action = "recreate"
  /\ pc # "execute"
  /\ \E j \in 1..Len(loc.containers) : loc.containers[j].id \notin DOMAIN cs

\* C25: after a converge that completed without error the service has at
\* least one container and all its containers are running, for every
\* allow_recreate and smart_recreate and every starting set of containers.
C25_ConvergeLeavesAllRunning ==
  ConvergeReturned => (Mine # {} /\ \A i \in Mine : cs[i].running)

\* C25 witness: a converge whose 'start' plan listed the stopped container
\* only has returned with two containers
C25_Witness ==
  /\ ConvergeReturned
  /\ loc.action = "start"
  /\ Len(loc.containers) = 1
  /\ Cardinality(Mine) = 2

\* C23: create_container does not change the options the service declares:
\* after every call, regular, one-off or with overrides, the options and with
\* them the labels map are what they were before the call.
C23_CreateKeepsOptions ==
  [][CreateStep => options' = options]_vars

\* the containers this create_container call created, by the log
CreatedIds == {log[k].id : k \in {m \in 1..Len(log) : log[m].call = "create" /\ log[m].ok}}

\* the service create_container was called on
RootService == log[Len(log)].arg

\* C26: create_container terminates with a bounded number of create calls,
\* also when the volumes_from references of services without containers form
\* a cycle: the calls in progress are of pairwise distinct services, the call
\* does not end in the interpreter's recursion error, each service gets at
\* most one create call, and when the call returns every source service that
\* had no container has exactly one, which is not started.
C26_CreateTerminatesOnePerSource ==
  loc.op = "volumes_from"
    => /\ \A i, j \in 1..Len(loc.stack) : loc.stack[i].service = loc.stack[j].service => i = j
       /\ loc.exc # "RuntimeError"
       /\ \A k, m \in 1..Len(log) : log[k].arg = log[m].arg => k = m
       /\ pc = "done"
            => \A s \in Range(loc.volumes_from[RootService]) \cap Services :
                 /\ containers_of(s) # {}
                 /\ containers_of(s) \cap CreatedIds # {}
                      => /\ Cardinality(containers_of(s)) = 1
                         /\ \A i \in containers_of(s) : ~cs[i].running

====
